---- MODULE Spec2Model ----
(***************************************************************************)
(* The SBI statement parser: extraction of transaction rows from a         *)
(* statement (parse_sbi_statement.py: parse_pdf and its helpers), the      *)
(* fingerprint and the merge into the cumulative ledger file               *)
(* (compute_hash, sort_key, load_existing_csv, write_master_csv), driven   *)
(* by the command line (main) and by the server's /parse-and-save handler  *)
(* (api.py).                                                               *)
(*                                                                         *)
(* Text is a sequence of one-character strings, so that strip, replace,    *)
(* the float and date grammars and the '|' join are computed character by  *)
(* character as the code computes them.  A cell that pdfplumber reports    *)
(* as None is the empty text: every place of the code that reads a cell    *)
(* treats None and "" alike (`row[i] or ""`, `not value`, `not text`).     *)
(***************************************************************************)
EXTENDS Integers, Sequences, FiniteSets, TLC

\* ------------------------------------------------------------------------
\* Bounds of the model
\* ------------------------------------------------------------------------

\* rows of one statement
MaxRows == 2
\* uploads and command-line documents taken in one behaviour
MaxMerges == 2
\* seconds the clock may advance
MaxClock == 1

\* ------------------------------------------------------------------------
\* Config (parse_sbi_statement.py 38-51)
\* ------------------------------------------------------------------------

COL_TXN_DATE == 0
COL_VALUE_DATE == 1
COL_DESCRIPTION == 2
COL_CHEQUE_NO == 3
COL_DEBIT == 4
COL_CREDIT == 5
COL_BALANCE == 6
MIN_COLS == 7

CSV_FIELDS ==
  << "txn_id", "value_date", "post_date", "details", "ref_no", "debit",
     "credit", "balance", "txn_type", "account_source", "imported_at", "hash" >>

\* ------------------------------------------------------------------------
\* Text helpers (the str methods and re patterns the code uses)
\* ------------------------------------------------------------------------

Digits == << "0", "1", "2", "3", "4", "5", "6", "7", "8", "9" >>

IsDigit(c) == \E i \in 1..10 : Digits[i] = c

DigitVal(c) == (CHOOSE i \in 1..10 : Digits[i] = c) - 1

IsSpace(c) == c \in { " ", "\n", "\t" }

\* \w of the re module on the model's alphabet
IsWordChar(c) == ~ IsSpace(c) /\ c \notin { "/", "-", ".", ",", "|", ":" }

AllDigits(s) == \A i \in 1..Len(s) : IsDigit(s[i])

RECURSIVE NatVal(_)
\* int() of a text of decimal digits
NatVal(s) ==
  IF s = << >> THEN 0
  ELSE 10 * NatVal(SubSeq(s, 1, Len(s) - 1)) + DigitVal(s[Len(s)])

RECURSIVE NatText(_)
\* str() of a natural number
NatText(n) ==
  IF n < 10 THEN << Digits[n + 1] >>
  ELSE NatText(n \div 10) \o << Digits[(n % 10) + 1] >>

RECURSIVE LStrip(_)
LStrip(s) ==
  IF s # << >> /\ IsSpace(Head(s)) THEN LStrip(Tail(s)) ELSE s

RECURSIVE RStrip(_)
RStrip(s) ==
  IF s # << >> /\ IsSpace(s[Len(s)]) THEN RStrip(SubSeq(s, 1, Len(s) - 1)) ELSE s

\* str.strip()
Strip(s) == RStrip(LStrip(s))

RECURSIVE Replace(_, _, _)
\* str.replace(c, by) for a one-character c
Replace(s, c, by) ==
  IF s = << >> THEN << >>
  ELSE (IF Head(s) = c THEN by ELSE << Head(s) >>) \o Replace(Tail(s), c, by)

\* `sub in s`
Contains(s, sub) ==
  \E i \in 1..(Len(s) - Len(sub) + 1) : SubSeq(s, i, i + Len(sub) - 1) = sub

RECURSIVE Split(_, _)
\* str.split(c): the pieces between occurrences of c
Split(s, c) ==
  IF \A i \in 1..Len(s) : s[i] # c THEN << s >>
  ELSE LET k == CHOOSE i \in 1..Len(s) :
                   s[i] = c /\ \A j \in 1..(i - 1) : s[j] # c
       IN  << SubSeq(s, 1, k - 1) >> \o Split(SubSeq(s, k + 1, Len(s)), c)

RECURSIVE CollapseSpace(_)
\* re.sub(r"\s+", " ", s)
CollapseSpace(s) ==
  IF s = << >> THEN << >>
  ELSE IF IsSpace(Head(s))
       THEN << " " >> \o CollapseSpace(LStrip(s))
       ELSE << Head(s) >> \o CollapseSpace(Tail(s))

RECURSIVE Join(_, _)
\* sep.join(parts)
Join(parts, sep) ==
  IF parts = << >> THEN << >>
  ELSE IF Len(parts) = 1 THEN parts[1]
  ELSE parts[1] \o sep \o Join(Tail(parts), sep)

\* the letters of float's grammar, in lower case
Fold(c) ==
  CASE c = "E" -> "e" [] c = "I" -> "i" [] c = "N" -> "n" [] c = "F" -> "f"
    [] c = "T" -> "t" [] c = "Y" -> "y" [] c = "A" -> "a" [] OTHER -> c

\* digits, with single underscores between digits
DigitPart(s) ==
  /\ s # << >>
  /\ \A i \in 1..Len(s) :
        \/ IsDigit(s[i])
        \/ /\ s[i] = "_"
           /\ 1 < i /\ i < Len(s)
           /\ IsDigit(s[i - 1]) /\ IsDigit(s[i + 1])

\* digits with at most one point and at least one digit
PointFloat(m) ==
  LET p == Split(m, ".")
  IN  \/ Len(p) = 1 /\ DigitPart(m)
      \/ /\ Len(p) = 2
         /\ p[1] # << >> \/ p[2] # << >>
         /\ p[1] = << >> \/ DigitPart(p[1])
         /\ p[2] = << >> \/ DigitPart(p[2])

\* float(s) succeeds: optional surrounding whitespace, an optional sign, then
\* inf, infinity or nan in any case, or a decimal number with an optional
\* exponent
IsFloat(s) ==
  LET t == Strip(s)
      u == IF t # << >> /\ Head(t) \in { "-", "+" } THEN Tail(t) ELSE t
      v == [ i \in 1..Len(u) |-> Fold(u[i]) ]
      e == Split(v, "e")
      x == IF Len(e) = 2 /\ e[2] # << >> /\ Head(e[2]) \in { "-", "+" }
           THEN Tail(e[2]) ELSE IF Len(e) = 2 THEN e[2] ELSE << >>
  IN  \/ v \in { << "i", "n", "f" >>, << "n", "a", "n" >>,
                 << "i", "n", "f", "i", "n", "i", "t", "y" >> }
      \/ Len(e) = 1 /\ PointFloat(v)
      \/ Len(e) = 2 /\ PointFloat(e[1]) /\ DigitPart(x)

\* ------------------------------------------------------------------------
\* Helpers (parse_sbi_statement.py 67-98)
\* ------------------------------------------------------------------------

parse_amount(value) ==
  IF value = << >> \/ Strip(value) = << "-" >> THEN << >>
  ELSE LET cleaned == Replace(Strip(value), ",", << >>)
       IN  IF IsFloat(cleaned) THEN cleaned ELSE << >>

DaysInMonth(y, m) ==
  IF m \in { 4, 6, 9, 11 } THEN 30
  ELSE IF m = 2
       THEN (IF (y % 4 = 0 /\ y % 100 # 0) \/ y % 400 = 0 THEN 29 ELSE 28)
       ELSE 31

\* datetime.strptime(s, "%d/%m/%Y") succeeds
IsDMY(s) ==
  LET p == Split(s, "/")
  IN  /\ Len(p) = 3
      /\ Len(p[1]) \in { 1, 2 } /\ AllDigits(p[1])
      /\ Len(p[2]) \in { 1, 2 } /\ AllDigits(p[2])
      /\ Len(p[3]) = 4 /\ AllDigits(p[3])
      /\ NatVal(p[3]) >= 1
      /\ NatVal(p[2]) \in 1..12
      /\ NatVal(p[1]) \in 1..DaysInMonth(NatVal(p[3]), NatVal(p[2]))

\* the datetime strptime returns, as the order-preserving number yyyymmdd
DMYValue(s) ==
  LET p == Split(s, "/")
  IN  NatVal(p[3]) * 10000 + NatVal(p[2]) * 100 + NatVal(p[1])

is_date(text) ==
  IF text = << >> THEN FALSE ELSE IsDMY(Strip(text))

\* is_transaction_row without the test of the date
is_transaction_row_undated(row) ==
  IF row = << >> \/ Len(row) < MIN_COLS THEN FALSE ELSE TRUE

is_transaction_row(row) ==
  IF row = << >> \/ Len(row) < MIN_COLS THEN FALSE
  ELSE is_date(row[COL_TXN_DATE + 1])

StatementSummary ==
  << "S", "t", "a", "t", "e", "m", "e", "n", "t", " ",
     "S", "u", "m", "m", "a", "r", "y" >>

BroughtForward ==
  << "B", "r", "o", "u", "g", "h", "t", " ",
     "F", "o", "r", "w", "a", "r", "d" >>

is_summary_row(row) ==
  IF row = << >> THEN FALSE
  ELSE LET first == row[1]
       IN  Contains(first, StatementSummary) \/ Contains(first, BroughtForward)

\* ------------------------------------------------------------------------
\* Description helpers (parse_sbi_statement.py 116-130)
\* ------------------------------------------------------------------------

\* re.match(r"^(\d{10,13})\b", line): the leading run of digits when it is
\* 10 to 13 long and ends at a word boundary, else no match (the empty text)
RefMatch(line) ==
  LET n == IF AllDigits(line) THEN Len(line)
           ELSE (CHOOSE i \in 1..Len(line) :
                    ~ IsDigit(line[i]) /\ \A j \in 1..(i - 1) : IsDigit(line[j])) - 1
  IN  IF n \in 10..13 /\ (n = Len(line) \/ ~ IsWordChar(line[n + 1]))
      THEN SubSeq(line, 1, n)
      ELSE << >>

RECURSIVE FirstRef(_)
FirstRef(lines) ==
  IF lines = << >> THEN << >>
  ELSE IF RefMatch(Strip(Head(lines))) # << >>
       THEN RefMatch(Strip(Head(lines)))
       ELSE FirstRef(Tail(lines))

extract_ref_number(desc) ==
  IF desc = << >> THEN << >> ELSE FirstRef(Split(desc, "\n"))

clean_description(desc) ==
  IF desc = << >> THEN << >>
  ELSE Strip(CollapseSpace(Replace(desc, "\n", << " ", "|", " " >>)))

\* ------------------------------------------------------------------------
\* PDF parsing (parse_sbi_statement.py 137-211)
\* ------------------------------------------------------------------------

\* A statement as pdfplumber presents it: whether the path exists, how open()
\* ends, whether the first page's text has an issuer marker, and the pages,
\* each a sequence of tables, each a sequence of rows of cells; valid says
\* the upload passes _validate_pdf (api.py 50-57).  NoDocument is a path
\* that does not exist.
NoDocument ==
  [ exists |-> FALSE, valid |-> FALSE, open |-> "error", marker |-> FALSE,
    pages |-> << >> ]

RECURSIVE Flatten(_)
\* the elements of a sequence of sequences, in order
Flatten(ss) == IF ss = << >> THEN << >> ELSE Head(ss) \o Flatten(Tail(ss))

\* line 195
TxnType(debit, credit) ==
  IF debit # << >> THEN "debit" ELSE IF credit # << >> THEN "credit" ELSE ""

\* RowEmitted without the check of line 192
RowEmittedAnyAmounts(row) ==
  /\ row # << >>
  /\ ~ is_summary_row(row)
  /\ is_transaction_row(row)

\* lines 178-193: the row is appended to transactions
RowEmitted(row) ==
  /\ row # << >>
  /\ ~ is_summary_row(row)
  /\ is_transaction_row(row)
  /\ \/ parse_amount(row[COL_DEBIT + 1]) # << >>
     \/ parse_amount(row[COL_CREDIT + 1]) # << >>
     \/ parse_amount(row[COL_BALANCE + 1]) # << >>

\* RowRecord with the counter advanced before it is used
RowRecordFromOne(row, seq) ==
  LET desc_raw == row[COL_DESCRIPTION + 1]
      debit == parse_amount(row[COL_DEBIT + 1])
      credit == parse_amount(row[COL_CREDIT + 1])
  IN  [ value_date |-> Strip(row[COL_VALUE_DATE + 1]),
        post_date |-> Strip(row[COL_TXN_DATE + 1]),
        details |-> clean_description(desc_raw),
        ref_no |-> extract_ref_number(desc_raw),
        debit |-> debit,
        credit |-> credit,
        balance |-> parse_amount(row[COL_BALANCE + 1]),
        txn_type |-> TxnType(debit, credit),
        account_source |-> "sbi_email",
        parse_seq |-> seq + 1 ]

\* lines 185-208: the record built from a row, with sequence number seq
RowRecord(row, seq) ==
  LET desc_raw == row[COL_DESCRIPTION + 1]
      debit == parse_amount(row[COL_DEBIT + 1])
      credit == parse_amount(row[COL_CREDIT + 1])
  IN  [ value_date |-> Strip(row[COL_VALUE_DATE + 1]),
        post_date |-> Strip(row[COL_TXN_DATE + 1]),
        details |-> clean_description(desc_raw),
        ref_no |-> extract_ref_number(desc_raw),
        debit |-> debit,
        credit |-> credit,
        balance |-> parse_amount(row[COL_BALANCE + 1]),
        txn_type |-> TxnType(debit, credit),
        account_source |-> "sbi_email",
        parse_seq |-> seq ]

RECURSIVE ParseRows(_, _)
\* lines 168-209: the loop over the rows in reading order; acc is the list
\* of transactions so far, whose length is seq
ParseRows(rows, acc) ==
  IF rows = << >> THEN acc
  ELSE ParseRows(Tail(rows),
                 IF RowEmitted(Head(rows))
                 THEN Append(acc, RowRecord(Head(rows), Len(acc)))
                 ELSE acc)

\* the rows of a document in the order of lines 170-177: page, table, row
\* (a page without tables and an empty table are passed over)
ReadingOrder(pages) == Flatten(Flatten(pages))

\* parse_pdf: err is "" and transactions the result, or err names the
\* exception raised ("RuntimeError" for lines 149, 158, 162; "Exception" for
\* any other failure of open, line 153)
parse_pdf(doc) ==
  IF doc.open = "password" THEN [ err |-> "RuntimeError", transactions |-> << >>, pages |-> 0 ]
  ELSE IF doc.open # "ok" THEN [ err |-> "Exception", transactions |-> << >>, pages |-> 0 ]
  ELSE IF Len(doc.pages) = 0 THEN [ err |-> "RuntimeError", transactions |-> << >>, pages |-> 0 ]
  ELSE IF ~ doc.marker THEN [ err |-> "RuntimeError", transactions |-> << >>, pages |-> 0 ]
  ELSE [ err |-> "",
         transactions |-> ParseRows(ReadingOrder(doc.pages), << >>),
         pages |-> Len(doc.pages) ]

\* ------------------------------------------------------------------------
\* Hash, dedup, sort, CSV I/O (parse_sbi_statement.py 218-279)
\* ------------------------------------------------------------------------

\* compute_hash that joins the five fields without a separator
compute_hash_unseparated(txn) ==
  Join(<< txn.post_date, txn.value_date, txn.debit, txn.credit, txn.balance >>,
       << >>)

\* compute_hash: the digest is modelled by the text it digests, the five
\* fields joined by '|' (SHA-256, cut to 32 hex digits, taken as injective)
compute_hash(txn) ==
  Join(<< txn.post_date, txn.value_date, txn.debit, txn.credit, txn.balance >>,
       << "|" >>)

\* datetime.max, later than every date
DateMax == 99991232

parse_date_for_sort(date_str) ==
  IF IsDMY(date_str) THEN DMYValue(date_str) ELSE DateMax

\* int(s) of line 240 succeeds
IsInt(s) == s # << >> /\ AllDigits(s)

\* sort_key with the sequence counted downwards
sort_key_descending(txn) ==
  LET seq == IF "parse_seq" \in DOMAIN txn THEN txn.parse_seq
             ELSE IF IsInt(txn.txn_id) THEN NatVal(txn.txn_id) ELSE 0
  IN  << parse_date_for_sort(txn.post_date), 0 - seq >>

\* lines 235-243: the parsed post date, then _parse_seq or the previous txn_id
sort_key(txn) ==
  LET seq == IF "parse_seq" \in DOMAIN txn THEN txn.parse_seq
             ELSE IF IsInt(txn.txn_id) THEN NatVal(txn.txn_id) ELSE 0
  IN  << parse_date_for_sort(txn.post_date), seq >>

\* k1 <= k2 for the tuples sort_key returns
KeyLeq(k1, k2) == k1[1] < k2[1] \/ (k1[1] = k2[1] /\ k1[2] <= k2[2])

RECURSIVE InsertSorted(_, _)
\* x placed after every element of the sorted list whose key is <= its key
InsertSorted(sorted, x) ==
  IF sorted = << >> THEN << x >>
  ELSE IF KeyLeq(sort_key(sorted[Len(sorted)]), sort_key(x))
       THEN Append(sorted, x)
       ELSE Append(InsertSorted(SubSeq(sorted, 1, Len(sorted) - 1), x),
                   sorted[Len(sorted)])

RECURSIVE SortAcc(_, _)
SortAcc(txns, sorted) ==
  IF txns = << >> THEN sorted
  ELSE SortAcc(Tail(txns), InsertSorted(sorted, Head(txns)))

\* SortTransactions without the sort
SortSkipped(txns) == txns

\* list.sort(key=sort_key), line 265: a stable sort
SortTransactions(txns) == SortAcc(txns, << >>)

\* CsvRow without the renumbering of lines 266-267
CsvRowKeepsId(txn, i) ==
  [ txn_id |-> txn.txn_id,
    value_date |-> txn.value_date,
    post_date |-> txn.post_date,
    details |-> txn.details,
    ref_no |-> txn.ref_no,
    debit |-> txn.debit,
    credit |-> txn.credit,
    balance |-> txn.balance,
    txn_type |-> txn.txn_type,
    account_source |-> txn.account_source,
    imported_at |-> txn.imported_at,
    hash |-> txn.hash ]

\* lines 266-267 and the DictWriter of lines 273-275: the row written for the
\* i-th transaction of the sorted list (extrasaction="ignore" drops
\* _parse_seq; the integer id is written as its decimal text)
CsvRow(txn, i) ==
  [ txn_id |-> NatText(i),
    value_date |-> txn.value_date,
    post_date |-> txn.post_date,
    details |-> txn.details,
    ref_no |-> txn.ref_no,
    debit |-> txn.debit,
    credit |-> txn.credit,
    balance |-> txn.balance,
    txn_type |-> txn.txn_type,
    account_source |-> txn.account_source,
    imported_at |-> txn.imported_at,
    hash |-> txn.hash ]

\* what write_master_csv writes to the temporary file: header and rows
CsvContent(transactions) ==
  LET sorted == SortTransactions(transactions)
  IN  [ exists |-> TRUE,
        header |-> CSV_FIELDS,
        rows |-> [ i \in 1..Len(sorted) |-> CsvRow(sorted[i], i) ] ]

\* the ledger file does not exist
Absent == [ exists |-> FALSE, header |-> << >>, rows |-> << >> ]

Range(s) == { s[i] : i \in 1..Len(s) }

\* load_existing_csv that returns the rows and an empty set of hashes
LoadWithoutHashes(f) ==
  IF f = Absent THEN [ err |-> "", rows |-> << >>, hashes |-> { } ]
  ELSE [ err |-> "", rows |-> f.rows, hashes |-> { } ]

\* load_existing_csv: err is "" with rows and hashes, or "RuntimeError"
\* (lines 252-258: a column is missing and there is at least one row)
load_existing_csv(f) ==
  IF f = Absent THEN [ err |-> "", rows |-> << >>, hashes |-> { } ]
  ELSE IF f.rows # << >> /\ ~ (Range(CSV_FIELDS) \subseteq Range(f.header))
       THEN [ err |-> "RuntimeError", rows |-> << >>, hashes |-> { } ]
       ELSE [ err |-> "", rows |-> f.rows,
              hashes |-> { f.rows[i].hash : i \in { j \in 1..Len(f.rows) :
                              "hash" \in DOMAIN f.rows[j] /\ f.rows[j].hash # << >> } } ]

\* strftime("%Y-%m-%dT%H:%M:%S.000Z") of the clock, which counts seconds
Timestamp(clock) == NatText(clock) \o << ".", "0", "0", "0", "Z" >>

\* a new transaction as lines 148-152 (343-347) complete it
Accepted(txn, h, stamp, seq_offset) ==
  [ value_date |-> txn.value_date,
    post_date |-> txn.post_date,
    details |-> txn.details,
    ref_no |-> txn.ref_no,
    debit |-> txn.debit,
    credit |-> txn.credit,
    balance |-> txn.balance,
    txn_type |-> txn.txn_type,
    account_source |-> txn.account_source,
    parse_seq |-> txn.parse_seq + seq_offset,
    hash |-> h,
    imported_at |-> stamp,
    txn_id |-> << "0" >> ]

\* DedupStep without existing_hashes.add(h)
DedupStepNoAdd(acc, txn, stamp, seq_offset) ==
  LET h == compute_hash(txn)
  IN  IF h \in acc.existing_hashes
      THEN [ acc EXCEPT !.dup_count = @ + 1 ]
      ELSE [ acc EXCEPT !.new_txns = Append(@, Accepted(txn, h, stamp, seq_offset)) ]

\* DedupStep that drops a duplicate without counting it
DedupStepSilentDrop(acc, txn, stamp, seq_offset) ==
  LET h == compute_hash(txn)
  IN  IF h \in acc.existing_hashes
      THEN acc
      ELSE [ acc EXCEPT !.new_txns = Append(@, Accepted(txn, h, stamp, seq_offset)),
                        !.existing_hashes = @ \cup { h } ]

\* DedupStep whose fingerprint takes in the import time
DedupStepSaltedHash(acc, txn, stamp, seq_offset) ==
  LET h == compute_hash(txn) \o << "|" >> \o stamp
  IN  IF h \in acc.existing_hashes
      THEN [ acc EXCEPT !.dup_count = @ + 1 ]
      ELSE [ acc EXCEPT !.new_txns = Append(@, Accepted(txn, h, stamp, seq_offset)),
                        !.existing_hashes = @ \cup { h } ]

\* api.py 144-153, parse_sbi_statement.py 339-349: one turn of the dedup loop.
\* acc holds new_txns, dup_count and existing_hashes.
DedupStep(acc, txn, stamp, seq_offset) ==
  LET h == compute_hash(txn)
  IN  IF h \in acc.existing_hashes
      THEN [ acc EXCEPT !.dup_count = @ + 1 ]
      ELSE [ acc EXCEPT !.new_txns = Append(@, Accepted(txn, h, stamp, seq_offset)),
                        !.existing_hashes = @ \cup { h } ]

RECURSIVE DedupLoop(_, _, _, _)
\* the loop `for txn in transactions` over one document
DedupLoop(transactions, acc, stamp, seq_offset) ==
  IF transactions = << >> THEN acc
  ELSE DedupLoop(Tail(transactions),
                 DedupStep(acc, Head(transactions), stamp, seq_offset),
                 stamp, seq_offset)

\* ------------------------------------------------------------------------
\* The statements the model is run on
\* ------------------------------------------------------------------------

\* a debit on 1 February 2024 (the amounts of the spec's scenario)
RowDebit ==
  << << "0", "1", "/", "0", "2", "/", "2", "0", "2", "4" >>,
     << "0", "1", "/", "0", "2", "/", "2", "0", "2", "4" >>,
     << "U", "P", "I", "\n", "1", "2", "3", "4", "5", "6", "7", "8", "9", "0", " ", "a" >>,
     << >>,
     << "1", ",", "2", "3", "4", ".", "5", "0" >>,
     << "-" >>,
     << "1", "0", ",", "0", "0", "0", ".", "0", "0" >> >>

\* the same day, with both a debit and a credit
RowBoth ==
  << << " ", "0", "1", "/", "0", "2", "/", "2", "0", "2", "4" >>,
     << "1", "/", "2", "/", "2", "0", "2", "4" >>,
     << "x" >>,
     << >>,
     << "5" >>,
     << "7", " " >>,
     << "9" >> >>

\* the day before, with a balance and no movement
RowBalanceOnly ==
  << << "3", "1", "/", "0", "1", "/", "2", "0", "2", "4" >>,
     << "3", "1", "/", "0", "1", "/", "2", "0", "2", "4" >>,
     << >>,
     << >>,
     << >>,
     << "-" >>,
     << "8" >> >>

\* a summary row
RowSummary ==
  << << "B", "r", "o", "u", "g", "h", "t", " ", "F", "o", "r", "w", "a", "r", "d" >>,
     << >>,
     << >>,
     << >>,
     << >>,
     << >>,
     << "8" >> >>

\* a dated row without any amount
RowNoAmount ==
  << << "0", "1", "/", "0", "2", "/", "2", "0", "2", "4" >>,
     << "0", "1", "/", "0", "2", "/", "2", "0", "2", "4" >>,
     << "y" >>,
     << >>,
     << "-" >>,
     << >>,
     << "a", "b", "c" >> >>

\* the rows of the statements of one plain table
RowPool == { RowBoth, RowBalanceOnly }

\* the rows of the statements of several tables or pages: two records of
\* the same day
ShapedPool == { RowDebit, RowBoth }

RowSeqs == UNION { [ 1..n -> RowPool ] : n \in 0..MaxRows }

Statement(pages) ==
  [ exists |-> TRUE, valid |-> TRUE, open |-> "ok", marker |-> TRUE,
    pages |-> pages ]

\* one page with one table
OnePage(rows) == Statement(<< << rows >> >>)

\* one page with two tables: a summary row and the first half of the rows,
\* then a row without amounts and the other half
TwoTables(rows) ==
  Statement(<< << << RowSummary >> \o SubSeq(rows, 1, Len(rows) \div 2),
                  << RowNoAmount >>
                    \o SubSeq(rows, Len(rows) \div 2 + 1, Len(rows)) >> >>)

\* a page without tables, a page with the first half of the rows and an
\* empty table, a page with a short row, an empty row and the other half
ThreePages(rows) ==
  Statement(<< << >>,
               << SubSeq(rows, 1, (Len(rows) + 1) \div 2), << >> >>,
               << << << RowDebit[1], RowDebit[2] >>, << >> >>
                    \o SubSeq(rows, (Len(rows) + 1) \div 2 + 1, Len(rows)) >> >>)

ShapedSeqs == UNION { [ 1..n -> ShapedPool ] : n \in 1..MaxRows }

\* statements that parse_pdf or _validate_pdf refuses
BadDocs ==
  { [ OnePage(<< RowDebit >>) EXCEPT !.open = "password" ],
    [ OnePage(<< RowDebit >>) EXCEPT !.open = "error" ],
    [ OnePage(<< RowDebit >>) EXCEPT !.marker = FALSE ],
    [ OnePage(<< RowDebit >>) EXCEPT !.valid = FALSE, !.open = "error" ],
    Statement(<< >>) }

Docs ==
  { OnePage(rows) : rows \in RowSeqs }
    \cup { TwoTables(rows) : rows \in ShapedSeqs }
    \cup { ThreePages(rows) : rows \in ShapedSeqs }
    \cup BadDocs

\* a row of seven cells (the cheque number cell is empty)
Row7(post, value, desc, debit, credit, balance) ==
  << post, value, desc, << >>, debit, credit, balance >>

\* a summary row with an amount in every amount cell
RowStatementSummary ==
  Row7(<< " " >> \o StatementSummary, << >>, << >>, << "1" >>, << "2" >>, << "3" >>)

\* Rows that try the classification of rows and the fingerprint: records
\* equal but for details, equal but for where a text sits among the five
\* fields, a value date with the separator in it, an amount cell with the
\* separator in it, a date without padding and an amount with an exponent,
\* an earlier day, rows of six and of eight cells, a row without amounts, a
\* first cell that is no date, a summary row, a day that does not exist, an
\* empty row.
CaseRows ==
  { Row7(RowDebit[1], << "5" >>, << "x" >>, << >>, << >>, << "9" >>),
    Row7(RowDebit[1], << >>, << "x" >>, << "5" >>, << >>, << "9" >>),
    Row7(RowDebit[1], << "5" >>, << "y" >>, << >>, << >>, << "9" >>),
    Row7(RowDebit[1], << "5", "|" >>, << "x" >>, << >>, << >>, << "9" >>),
    Row7(RowDebit[1], << "5" >>, << "x" >>, << "|" >>, << >>, << "9" >>),
    Row7(<< " ", "1", "/", "2", "/", "2", "0", "2", "4" >>, << "5" >>, << "x" >>,
         << >>, << "1", "e", "1" >>, << >>),
    Row7(RowBalanceOnly[1], << >>, << >>, << >>, << "7" >>, << >>),
    << RowDebit[1], RowDebit[1], << "x" >>, << >>, << "5" >>, << >> >>,
    Row7(RowDebit[1], << >>, << >>, << "8" >>, << >>, << >>) \o << << "z" >> >>,
    RowNoAmount,
    Row7(<< "x" >>, RowDebit[1], << >>, << "5" >>, << >>, << "9" >>),
    RowSummary,
    Row7(<< "3", "1", "/", "0", "2", "/", "2", "0", "2", "4" >>, << >>, << >>,
         << "5" >>, << >>, << "9" >>),
    << >> }

\* statements of one table: a row, a summary row, a row
CaseDocs ==
  { OnePage(<< a, RowStatementSummary, b >>) : a \in CaseRows, b \in CaseRows }

\* parse_pdf of every statement of the model
Parsed == [ d \in Docs \cup CaseDocs |-> parse_pdf(d) ]

\* ------------------------------------------------------------------------
\* State
\* ------------------------------------------------------------------------

\* the requests the server may be handling at once
Requests == { "r1", "r2" }

NoOwner == "free"

\* a temporary file just created by mkstemp
EmptyTmp == [ exists |-> TRUE, header |-> << >>, rows |-> << >> ]

\* the body of a response: the counts of /parse-and-save (api.py 162-171),
\* the list of /transactions (227), the fields of /health (238-242)
NoResponse ==
  [ status |-> "", parsed |-> 0, new |-> 0, duplicates_skipped |-> 0,
    total_in_csv |-> 0, content |-> << >>, csv_exists |-> FALSE,
    transaction_count |-> 0 ]

\* how a command-line run ended, in the shape of a response: the counts are
\* those of the line printed for the last document (line 351)
CliExit(status, c) ==
  [ NoResponse EXCEPT !.status = status, !.parsed = c.found,
                      !.new = c.new_count,
                      !.duplicates_skipped = c.dup_count,
                      !.total_in_csv = Len(c.existing) + Len(c.all_new) ]

\* printed holds, for each document of the run, the line printed for it: SKIP
\* (320), ERROR (327, 330) or Found with the number of new records (351)
CliIdle ==
  [ pc |-> "idle", stamp |-> << >>, existing |-> << >>, existing_hashes |-> { },
    all_new |-> << >>, found |-> 0, new_count |-> 0, dup_count |-> 0,
    printed |-> << >> ]

\* no GET is in progress
ReaderIdle == [ pc |-> "idle", kind |-> "", seen |-> Absent ]

VARIABLES
  file,          \* MASTER_CSV: Absent, or the header and rows of the ledger
  csv_lock,      \* _csv_lock: NoOwner or the request that holds it
  now,           \* the clock as last read, in seconds
  pc,            \* where each request is in parse_and_save
  transactions,  \* what parse_pdf returned to each request
  merged,        \* each request's list `merged`, as handed to write_master_csv
  tmp,           \* each request's temporary file
  resp,          \* each request's response body while it is built
  response,      \* the response the step just taken sent (for the command line,
                 \* how the run ended), NoResponse after any other step
  cli,           \* the command-line run: its position and its locals
  merges,        \* documents taken so far
  lastKeys,      \* the sort keys of the list the step just taken wrote to the
                 \* ledger, in written order; empty after any other step
  runs,          \* the ledgers written by merges that found no ledger, in order
  detDoc,        \* the statement a determinism experiment repeats
  reader,        \* a GET /transactions or GET /health in progress
  whole          \* the ledger as the last completed write (or deletion) left it

vars ==
  << file, csv_lock, now, pc, transactions, merged, tmp, resp, response, cli, merges,
     lastKeys, runs, detDoc, reader, whole >>

Init ==
  /\ file = Absent
  /\ csv_lock = NoOwner
  /\ now = 0
  /\ pc = [ r \in Requests |-> "idle" ]
  /\ transactions = [ r \in Requests |-> << >> ]
  /\ merged = [ r \in Requests |-> << >> ]
  /\ tmp = [ r \in Requests |-> Absent ]
  /\ resp = [ r \in Requests |-> NoResponse ]
  /\ response = NoResponse
  /\ cli = CliIdle
  /\ merges = 0
  /\ lastKeys = << >>
  /\ runs = << >>
  /\ detDoc = NoDocument
  /\ reader = ReaderIdle
  /\ whole = Absent

\* ------------------------------------------------------------------------
\* POST /parse-and-save (api.py 117-171)
\* ------------------------------------------------------------------------

Hashes(txns) == { compute_hash(txns[i]) : i \in 1..Len(txns) }

KeysOf(txns) ==
  LET sorted == SortTransactions(txns)
  IN  [ i \in 1..Len(sorted) |-> sort_key(sorted[i]) ]

\* Merged that keeps the new transactions alone
MergedOnlyNew(existing, new_txns) == new_txns

\* api.py 156, parse_sbi_statement.py 359
Merged(existing, new_txns) == existing \o new_txns

\* datetime.now(timezone.utc) returns clock: time does not run backwards, and
\* the model follows it for MaxClock seconds
ClockReads(clock) ==
  /\ clock \in now..MaxClock
  /\ now' = clock

\* a critical section without the lock
LockIgnored == TRUE

\* `with _csv_lock:` may be entered
LockFree == csv_lock = NoOwner

\* The command-line tool is a process of its own that takes no lock.  The
\* design's concurrency model is a single process (one server, requests as
\* the only concurrent users of the ledger), so a command-line run and a
\* request's critical section are taken one after the other.
CliQuiet == cli.pc = "idle"

\* Parsing an upload touches nothing shared, so a request that would parse
\* during a command-line run is taken after it: the server is idle while the
\* command line runs.
ServerIdle == \A r \in Requests : pc[r] = "idle"

\* The requests are interchangeable slots of the server: an upload takes the
\* first idle one.
FirstIdle(r) == r = "r1" \/ pc["r1"] # "idle"

\* the handler ends: the response goes out and its locals are dropped
Respond(r, body) ==
  /\ response' = body
  /\ resp' = [ resp EXCEPT ![r] = NoResponse ]
  /\ pc' = [ pc EXCEPT ![r] = "idle" ]
  /\ transactions' = [ transactions EXCEPT ![r] = << >> ]
  /\ merged' = [ merged EXCEPT ![r] = << >> ]

\* the step sends no response
Silent == response' = NoResponse

\* the step does not replace the ledger
LedgerKept ==
  /\ file' = file
  /\ whole' = whole
  /\ lastKeys' = << >>
  /\ runs' = runs

\* Upload that goes on to the merge, with no records, when parse_pdf raises
UploadSwallowsError(r, doc) ==
  /\ pc[r] = "idle"
  /\ FirstIdle(r)
  /\ CliQuiet
  /\ merges < MaxMerges
  /\ doc \in DOMAIN Parsed
  /\ merges' = merges + 1
  /\ IF ~ doc.valid
     THEN Respond(r, [ NoResponse EXCEPT !.status = "400" ])
     ELSE /\ pc' = [ pc EXCEPT ![r] = "parsed" ]
          /\ transactions' = [ transactions EXCEPT ![r] = Parsed[doc].transactions ]
          /\ Silent
          /\ UNCHANGED << merged, resp >>
  /\ LedgerKept
  /\ UNCHANGED << csv_lock, now, tmp, cli, detDoc, reader >>

\* lines 123-134: read the upload, validate it, parse it
Upload(r, doc) ==
  /\ pc[r] = "idle"
  /\ FirstIdle(r)
  /\ CliQuiet
  /\ merges < MaxMerges
  /\ doc \in DOMAIN Parsed
  /\ merges' = merges + 1
  /\ IF ~ doc.valid
     THEN Respond(r, [ NoResponse EXCEPT !.status = "400" ])
     ELSE IF Parsed[doc].err = "RuntimeError"
     THEN Respond(r, [ NoResponse EXCEPT !.status = "422" ])
     ELSE IF Parsed[doc].err # ""
     THEN Respond(r, [ NoResponse EXCEPT !.status = "500 parsing" ])
     ELSE /\ pc' = [ pc EXCEPT ![r] = "parsed" ]
          /\ transactions' = [ transactions EXCEPT ![r] = Parsed[doc].transactions ]
          /\ Silent
          /\ UNCHANGED << merged, resp >>
  /\ LedgerKept
  /\ UNCHANGED << csv_lock, now, tmp, cli, detDoc, reader >>

\* lines 136-160 up to the call of write_master_csv: take the lock, load the
\* ledger, run the dedup loop; without new transactions the handler is done
AcquireLoad(r, clock) ==
  /\ pc[r] = "parsed"
  /\ LockFree
  /\ CliQuiet
  /\ ClockReads(clock)
  /\ LET ld == load_existing_csv(file)
         acc == DedupLoop(transactions[r],
                          [ new_txns |-> << >>, dup_count |-> 0,
                            existing_hashes |-> ld.hashes ],
                          Timestamp(clock), Len(ld.rows))
         body(total) == [ NoResponse EXCEPT !.parsed = Len(transactions[r]),
                                            !.new = Len(acc.new_txns),
                                            !.duplicates_skipped = acc.dup_count,
                                            !.total_in_csv = total ]
     IN  IF ld.err # ""
         THEN /\ Respond(r, [ NoResponse EXCEPT !.status = "500 loading" ])
              /\ UNCHANGED csv_lock
         ELSE IF acc.new_txns # << >>
         THEN /\ csv_lock' = r
              /\ merged' = [ merged EXCEPT ![r] = Merged(ld.rows, acc.new_txns) ]
              /\ resp' = [ resp EXCEPT ![r] =
                             body(Len(Merged(ld.rows, acc.new_txns))) ]
              /\ pc' = [ pc EXCEPT ![r] = "mkstemp" ]
              /\ Silent
              /\ UNCHANGED transactions
         ELSE /\ Respond(r, [ body(Len(ld.rows)) EXCEPT !.status = "200" ])
              /\ UNCHANGED csv_lock
  /\ LedgerKept
  /\ UNCHANGED << tmp, cli, merges, detDoc, reader >>

\* the except block without the unlink
UnlinkForgotten(r) == tmp

\* parse_sbi_statement.py 277-279: the temporary file is unlinked
Unlink(r) == [ tmp EXCEPT ![r] = Absent ]

\* write_master_csv raises and the lock stays with the request that failed,
\* as after acquire() without a release() in a finally block
WriteFailsHoldingLock(r) ==
  /\ csv_lock' = csv_lock
  /\ Respond(r, [ NoResponse EXCEPT !.status = "500" ])
  /\ LedgerKept
  /\ UNCHANGED << now, cli, merges, detDoc, reader >>

\* write_master_csv raises: the lock is released on the way out of `with`
\* and the request is answered 500
WriteFails(r) ==
  /\ csv_lock' = NoOwner
  /\ Respond(r, [ NoResponse EXCEPT !.status = "500" ])
  /\ LedgerKept
  /\ UNCHANGED << now, cli, merges, detDoc, reader >>

\* a step inside write_master_csv that succeeds and is not the last
WriteGoesOn(r, next) ==
  /\ pc' = [ pc EXCEPT ![r] = next ]
  /\ Silent
  /\ LedgerKept
  /\ UNCHANGED << csv_lock, now, transactions, merged, resp, cli, merges, detDoc, reader >>

\* write_master_csv that opens the ledger itself for writing, as
\* open(path, "w") does, in place of a temporary file beside it
MkTempInPlace(r) ==
  /\ pc[r] = "mkstemp"
  /\ file' = EmptyTmp
  /\ pc' = [ pc EXCEPT ![r] = "write" ]
  /\ lastKeys' = << >>
  /\ Silent
  /\ UNCHANGED << whole, runs, tmp, csv_lock, now, transactions, merged, resp,
                  cli, merges, detDoc, reader >>

\* line 270: mkstemp, outside the try block
MkTemp(r) ==
  /\ pc[r] = "mkstemp"
  /\ \/ /\ tmp' = [ tmp EXCEPT ![r] = EmptyTmp ]
        /\ WriteGoesOn(r, "write")
     \/ /\ UNCHANGED tmp
        /\ WriteFails(r)

\* lines 265-267 and 272-275: the sorted, renumbered list goes to the
\* temporary file
WriteTmp(r) ==
  /\ pc[r] = "write"
  /\ \/ /\ tmp' = [ tmp EXCEPT ![r] = CsvContent(merged[r]) ]
        /\ WriteGoesOn(r, "replace")
     \/ /\ tmp' = Unlink(r)
        /\ WriteFails(r)

\* line 276: the temporary file replaces the ledger; then lines 158-171
ReplaceTmp(r) ==
  /\ pc[r] = "replace"
  /\ \/ /\ file' = tmp[r]
        /\ whole' = tmp[r]
        /\ tmp' = [ tmp EXCEPT ![r] = Absent ]
        /\ csv_lock' = NoOwner
        /\ Respond(r, [ resp[r] EXCEPT !.status = "200" ])
        /\ lastKeys' = KeysOf(merged[r])
        /\ runs' = IF file = Absent THEN Append(runs, tmp[r]) ELSE runs
        /\ UNCHANGED << now, cli, merges, detDoc, reader >>
     \/ /\ tmp' = Unlink(r)
        /\ WriteFails(r)

\* ------------------------------------------------------------------------
\* The command line (parse_sbi_statement.py 293-370)
\* ------------------------------------------------------------------------

\* lines 299-316: the timestamp is taken, the ledger is loaded
CliStart(clock) ==
  /\ cli.pc = "idle"
  /\ ServerIdle
  /\ merges < MaxMerges
  /\ ClockReads(clock)
  /\ LET ld == load_existing_csv(file)
     IN  IF ld.err # ""
         THEN /\ cli' = CliIdle
              /\ response' = CliExit("error", CliIdle)
         ELSE /\ cli' = [ CliIdle EXCEPT !.pc = "docs",
                                         !.stamp = Timestamp(clock),
                                         !.existing = ld.rows,
                                         !.existing_hashes = ld.hashes ]
              /\ Silent
  /\ LedgerKept
  /\ UNCHANGED << csv_lock, pc, transactions, merged, tmp, resp, merges, detDoc, reader >>

\* lines 318-351: one turn of the loop over pdf_paths
CliDoc(doc) ==
  /\ cli.pc = "docs"
  /\ merges < MaxMerges
  /\ doc \in Docs \cup { NoDocument }
  /\ merges' = merges + 1
  /\ cli' = IF ~ doc.exists
            THEN [ cli EXCEPT !.found = 0, !.new_count = 0, !.dup_count = 0,
                              !.printed = Append(@, [ line |-> "SKIP", new |-> 0 ]) ]
            ELSE IF Parsed[doc].err # ""
            THEN [ cli EXCEPT !.found = 0, !.new_count = 0, !.dup_count = 0,
                              !.printed = Append(@, [ line |-> "ERROR", new |-> 0 ]) ]
            ELSE LET acc == DedupLoop(Parsed[doc].transactions,
                                      [ new_txns |-> << >>, dup_count |-> 0,
                                        existing_hashes |-> cli.existing_hashes ],
                                      cli.stamp, Len(cli.existing))
                 IN  [ cli EXCEPT !.all_new = @ \o acc.new_txns,
                                  !.existing_hashes = acc.existing_hashes,
                                  !.found = Len(Parsed[doc].transactions),
                                  !.new_count = Len(acc.new_txns),
                                  !.dup_count = acc.dup_count,
                                  !.printed =
                                     Append(@, [ line |-> "Found",
                                                 new |-> Len(acc.new_txns) ]) ]
  /\ Silent
  /\ LedgerKept
  /\ UNCHANGED << csv_lock, now, pc, transactions, merged, tmp, resp, detDoc, reader >>

\* lines 353-357: nothing new, the ledger is left as it is
CliReturn ==
  /\ cli.pc = "docs"
  /\ cli.all_new = << >>
  /\ cli' = CliIdle
  /\ response' = CliExit("unchanged", cli)
  /\ LedgerKept
  /\ UNCHANGED << csv_lock, now, pc, transactions, merged, tmp, resp, merges,
                  detDoc, reader >>

\* lines 359-360: write_master_csv(merged, MASTER_CSV); it ends "ok", or
\* raises at mkstemp, while writing or at the rename, with the temporary
\* file unlinked
CliWrite(outcome) ==
  /\ cli.pc = "docs"
  /\ cli.all_new # << >>
  /\ outcome \in { "ok", "mkstemp", "write", "replace" }
  /\ IF outcome = "ok"
     THEN /\ file' = CsvContent(Merged(cli.existing, cli.all_new))
          /\ whole' = CsvContent(Merged(cli.existing, cli.all_new))
          /\ lastKeys' = KeysOf(Merged(cli.existing, cli.all_new))
          /\ runs' = IF cli.existing = << >>
                     THEN Append(runs, CsvContent(Merged(cli.existing, cli.all_new)))
                     ELSE runs
          /\ response' = CliExit("ok", cli)
     ELSE /\ response' = CliExit("error", cli)
          /\ LedgerKept
  /\ cli' = CliIdle
  /\ UNCHANGED << csv_lock, now, pc, transactions, merged, tmp, resp, merges,
                  detDoc, reader >>

\* ------------------------------------------------------------------------
\* The specification
\* ------------------------------------------------------------------------

Next ==
  \/ \E r \in Requests, doc \in Docs : Upload(r, doc)
  \/ \E r \in Requests, clock \in 0..MaxClock : AcquireLoad(r, clock)
  \/ \E r \in Requests : MkTemp(r)
  \/ \E r \in Requests : WriteTmp(r)
  \/ \E r \in Requests : ReplaceTmp(r)
  \/ \E clock \in 0..MaxClock : CliStart(clock)
  \/ \E doc \in Docs \cup { NoDocument } : CliDoc(doc)
  \/ CliReturn
  \/ \E outcome \in { "ok", "mkstemp", "write", "replace" } : CliWrite(outcome)

Spec == Init /\ [][Next]_vars

\* ------------------------------------------------------------------------
\* GET /transactions (api.py 181-227) and GET /health (230-242): readers of
\* the ledger that take no lock
\* ------------------------------------------------------------------------

ReadKinds == { "transactions", "health" }

\* api.py 74-90: the row as the response carries it (txn_id is the head of
\* the hash; a missing column reads as "")
TxnToDict(row) ==
  LET get(k) == IF k \in DOMAIN row THEN row[k] ELSE << >>
  IN  [ txn_id |-> get("hash"),
        value_date |-> get("value_date"),
        post_date |-> get("post_date"),
        details |-> get("details"),
        ref_no |-> get("ref_no"),
        debit |-> get("debit"),
        credit |-> get("credit"),
        balance |-> get("balance"),
        txn_type |-> get("txn_type"),
        account_source |-> IF "account_source" \in DOMAIN row
                           THEN row.account_source
                           ELSE << "s", "b", "i", "_", "e", "m", "a", "i", "l" >>,
        imported_at |-> get("imported_at"),
        hash |-> get("hash") ]

\* the lines of a file as /health counts them (236): the header and the rows
LineCount(f) == (IF f.header = << >> THEN 0 ELSE 1) + Len(f.rows)

\* steps of a reader leave the requests, the ledger and the command line alone
ReaderOnly ==
  /\ LedgerKept
  /\ UNCHANGED << csv_lock, now, pc, transactions, merged, tmp, resp, cli,
                  merges, detDoc >>

\* api.py 202-203, 232-234: MASTER_CSV.exists(); without a ledger the answer
\* goes out at once
ReadExists(kind) ==
  /\ reader.pc = "idle"
  /\ kind \in ReadKinds
  /\ IF file.exists
     THEN /\ reader' = [ ReaderIdle EXCEPT !.pc = "exists", !.kind = kind ]
          /\ Silent
     ELSE /\ reader' = ReaderIdle
          /\ response' = [ NoResponse EXCEPT !.status = kind ]
  /\ ReaderOnly

\* open(path) of parse_sbi_statement.py 249 and api.py 235: the reader holds
\* the file that has the ledger's name at this moment
ReadOpen ==
  /\ reader.pc = "exists"
  /\ reader' = [ reader EXCEPT !.pc = "open", !.seen = file ]
  /\ Silent
  /\ ReaderOnly

\* api.py 205-227 (no filter, no limit) and 236-242: the file is read to its
\* end and the answer goes out
ReadAll ==
  /\ reader.pc = "open"
  /\ reader' = ReaderIdle
  /\ response' =
       IF reader.kind = "health"
       THEN [ NoResponse EXCEPT
                !.status = "health", !.csv_exists = TRUE,
                !.transaction_count =
                   IF LineCount(reader.seen) > 0
                   THEN LineCount(reader.seen) - 1 ELSE 0 ]
       ELSE LET ld == load_existing_csv(reader.seen)
            IN  IF ld.err # ""
                THEN [ NoResponse EXCEPT !.status = "500 loading" ]
                ELSE [ NoResponse EXCEPT
                         !.status = "transactions",
                         !.content = [ i \in 1..Len(ld.rows) |->
                                         TxnToDict(ld.rows[i]) ] ]
  /\ ReaderOnly

\* ------------------------------------------------------------------------
\* The server alone, started on whatever ledger file it finds ("Delete the
\* CSV and re-run to regenerate", parse_sbi_statement.py 257: the file may
\* have been edited or left by another version)
\* ------------------------------------------------------------------------

\* the ledger that a first merge of one statement of one row writes
OneRowLedger ==
  CsvContent(DedupLoop(Parsed[OnePage(<< RowBoth >>)].transactions,
                       [ new_txns |-> << >>, dup_count |-> 0,
                         existing_hashes |-> { } ],
                       Timestamp(0), 0).new_txns)

\* a header, or a row, without the column `hash`
WithoutHash(f) == [ k \in DOMAIN f \ { "hash" } |-> f[k] ]
ShortHeader == SelectSeq(CSV_FIELDS, LAMBDA c : c # "hash")

\* the ledger files the server may find: none, an empty file, a header alone
\* (whole, or short of a column), a ledger of one row (whole, or short of a
\* column)
FoundFiles ==
  { Absent,
    EmptyTmp,
    [ exists |-> TRUE, header |-> CSV_FIELDS, rows |-> << >> ],
    [ exists |-> TRUE, header |-> ShortHeader, rows |-> << >> ],
    OneRowLedger,
    [ exists |-> TRUE, header |-> ShortHeader,
      rows |-> << WithoutHash(OneRowLedger.rows[1]) >> ] }

\* the statements uploaded to it: one row, two rows, one that is refused
ServerDocs ==
  { OnePage(<< RowBoth >>),
    OnePage(<< RowBalanceOnly, RowBoth >>),
    [ OnePage(<< RowDebit >>) EXCEPT !.open = "password" ] }

ServerInit ==
  /\ file \in FoundFiles
  /\ whole = file
  /\ csv_lock = NoOwner
  /\ now = 0
  /\ pc = [ r \in Requests |-> "idle" ]
  /\ transactions = [ r \in Requests |-> << >> ]
  /\ merged = [ r \in Requests |-> << >> ]
  /\ tmp = [ r \in Requests |-> Absent ]
  /\ resp = [ r \in Requests |-> NoResponse ]
  /\ response = NoResponse
  /\ cli = CliIdle
  /\ merges = 0
  /\ lastKeys = << >>
  /\ runs = << >>
  /\ detDoc = NoDocument
  /\ reader = ReaderIdle

ServerNext ==
  \/ \E r \in Requests, doc \in ServerDocs : Upload(r, doc)
  \/ \E r \in Requests, clock \in 0..MaxClock : AcquireLoad(r, clock)
  \/ \E r \in Requests : MkTemp(r)
  \/ \E r \in Requests : WriteTmp(r)
  \/ \E r \in Requests : ReplaceTmp(r)
  \/ \E kind \in ReadKinds : ReadExists(kind)
  \/ ReadOpen
  \/ ReadAll

\* The handler of request r takes its next step: into `with _csv_lock:` once
\* the lock is free (AcquireLoad), then through write_master_csv (MkTemp,
\* WriteTmp, ReplaceTmp).  Each of these steps, and no other, moves pc[r].
HandlerStep(r) ==
  /\ \/ pc[r] = "parsed" /\ LockFree /\ CliQuiet
     \/ pc[r] \in { "mkstemp", "write", "replace" }
  /\ \E stage \in { "idle", "mkstemp", "write", "replace" } \ { pc[r] } :
       pc' = [ pc EXCEPT ![r] = stage ]

\* A handler that has started runs on: the server's thread is scheduled
\* again and again, and `with _csv_lock:` is entered once the lock is free.
ServerFair == \A r \in Requests : WF_pc(HandlerStep(r))

SpecServer == ServerInit /\ [][ServerNext]_vars /\ ServerFair

\* ------------------------------------------------------------------------
\* The determinism experiment: one statement, merged again and again, the
\* ledger deleted in between ("Delete the CSV and re-run to regenerate",
\* parse_sbi_statement.py 257)
\* ------------------------------------------------------------------------

DeleteLedger ==
  /\ file # Absent
  /\ ServerIdle
  /\ CliQuiet
  /\ file' = Absent
  /\ whole' = Absent
  /\ lastKeys' = << >>
  /\ Silent
  /\ UNCHANGED << csv_lock, now, pc, transactions, merged, tmp, resp, cli,
                  merges, runs, detDoc, reader >>

DetInit ==
  /\ file = Absent
  /\ csv_lock = NoOwner
  /\ now = 0
  /\ pc = [ r \in Requests |-> "idle" ]
  /\ transactions = [ r \in Requests |-> << >> ]
  /\ merged = [ r \in Requests |-> << >> ]
  /\ tmp = [ r \in Requests |-> Absent ]
  /\ resp = [ r \in Requests |-> NoResponse ]
  /\ response = NoResponse
  /\ cli = CliIdle
  /\ merges = 0
  /\ lastKeys = << >>
  /\ runs = << >>
  /\ detDoc \in Docs
  /\ reader = ReaderIdle
  /\ whole = Absent

DetNext ==
  \/ \E r \in Requests : Upload(r, detDoc)
  \/ \E r \in Requests, clock \in 0..MaxClock : AcquireLoad(r, clock)
  \/ \E r \in Requests : MkTemp(r)
  \/ \E r \in Requests : WriteTmp(r)
  \/ \E r \in Requests : ReplaceTmp(r)
  \/ \E clock \in 0..MaxClock : CliStart(clock)
  \/ CliDoc(detDoc)
  \/ CliReturn
  \/ \E outcome \in { "ok", "mkstemp", "write", "replace" } : CliWrite(outcome)
  \/ DeleteLedger

SpecDet == DetInit /\ [][DetNext]_vars

\* ------------------------------------------------------------------------
\* One statement out of CaseDocs, uploaded to a server that has no ledger
\* ------------------------------------------------------------------------

CaseInit ==
  /\ file = Absent
  /\ whole = Absent
  /\ csv_lock = NoOwner
  /\ now = 0
  /\ pc = [ r \in Requests |-> "idle" ]
  /\ transactions = [ r \in Requests |-> << >> ]
  /\ merged = [ r \in Requests |-> << >> ]
  /\ tmp = [ r \in Requests |-> Absent ]
  /\ resp = [ r \in Requests |-> NoResponse ]
  /\ response = NoResponse
  /\ cli = CliIdle
  /\ merges = 0
  /\ lastKeys = << >>
  /\ runs = << >>
  /\ detDoc \in CaseDocs
  /\ reader = ReaderIdle

CaseNext ==
  \/ \E r \in Requests : Upload(r, detDoc)
  \/ \E r \in Requests, clock \in 0..MaxClock : AcquireLoad(r, clock)
  \/ \E r \in Requests : MkTemp(r)
  \/ \E r \in Requests : WriteTmp(r)
  \/ \E r \in Requests : ReplaceTmp(r)

SpecCase == CaseInit /\ [][CaseNext]_vars

\* ------------------------------------------------------------------------
\* Properties
\* ------------------------------------------------------------------------

\* the fingerprints in a ledger file
FileHashes(f) == { f.rows[i].hash : i \in 1..Len(f.rows) }

\* the request is inside write_master_csv, holding the lock
InCritical(r) == pc[r] \in { "mkstemp", "write", "replace" }

\* C1: no two records of the persisted ledger share a fingerprint.
NoDuplicateFingerprints ==
  \A i, j \in 1..Len(file.rows) :
    i # j => file.rows[i].hash # file.rows[j].hash

\* a merge that met duplicates has just written a ledger of several records
MergedWithDuplicates ==
  /\ response.status = "200"
  /\ response.new >= 1
  /\ response.duplicates_skipped >= 1
  /\ Len(file.rows) >= 2

\* C2: the load + merge + save cycles of two requests exclude each other, and
\* the step that answers a request 200 leaves in the ledger every record that
\* was in it and every transaction of that request's upload.
LostUpdateFreedom ==
  /\ [](\A r1, r2 \in Requests : InCritical(r1) /\ InCritical(r2) => r1 = r2)
  /\ [][\A r \in Requests :
          (pc[r] # "idle" /\ pc'[r] = "idle" /\ response'.status = "200")
            => (FileHashes(file) \cup Hashes(transactions[r]))
                 \subseteq FileHashes(file')]_vars

\* the second request is about to replace a ledger that the first request
\* wrote while the second one waited for the lock
SecondRequestExtendsFirst ==
  /\ pc["r2"] = "replace"
  /\ file # Absent
  /\ FileHashes(file) \subseteq FileHashes(tmp["r2"])
  /\ FileHashes(file) # FileHashes(tmp["r2"])

\* the fingerprints of the records each statement yields
DocHashes == [ d \in Docs |-> Hashes(Parsed[d].transactions) ]

\* C3: a merge of a document all of whose records are in the ledger accepts
\* nothing, counts every record as a duplicate and leaves the ledger as it is.
MergeIdempotent ==
  [][/\ \A r \in Requests :
          (/\ pc[r] = "parsed"
           /\ pc'[r] # "parsed"
           /\ Hashes(transactions[r]) \subseteq FileHashes(file))
            => (/\ response'.status = "200"
                /\ response'.new = 0
                /\ response'.duplicates_skipped = Len(transactions[r])
                /\ response'.total_in_csv = Len(file.rows)
                /\ file' = file)
     /\ (cli.pc = "docs" /\ cli'.pc = "docs")
          => \A doc \in Docs :
               (/\ Parsed[doc].err = ""
                /\ cli'.found = Len(Parsed[doc].transactions)
                /\ DocHashes[doc] \subseteq FileHashes(file)
                /\ CliDoc(doc))
                 => (/\ cli'.new_count = 0
                     /\ cli'.dup_count = Len(Parsed[doc].transactions)
                     /\ cli'.all_new = cli.all_new)
     /\ (cli.pc = "docs" /\ cli'.pc = "idle" /\ cli.all_new = << >>)
          => (file' = file /\ response'.status = "unchanged")]_vars

\* a statement of two rows has just been merged again
RemergedStatement ==
  /\ response.status = "200"
  /\ response.new = 0
  /\ response.duplicates_skipped >= 2
  /\ Len(file.rows) >= 2

\* C4: a step inside write_master_csv other than the rename that succeeds
\* leaves the ledger file as it is; when write_master_csv fails the error
\* goes up (the request ends 500, the command line ends in error) and the
\* temporary file is gone.
AtomicOnFailure ==
  [][/\ \A r \in Requests :
          /\ (InCritical(r) /\ ~ (pc[r] = "replace" /\ response'.status = "200"))
               => file' = file
          /\ (InCritical(r) /\ pc'[r] = "idle" /\ response'.status # "200")
               => (response'.status = "500" /\ tmp'[r] = Absent
                   /\ csv_lock' = NoOwner)
     /\ (cli.pc = "docs" /\ response'.status = "error") => file' = file]_vars

\* a write onto an existing ledger has just failed
WriteFailedOnLedger ==
  /\ response.status = "500"
  /\ file # Absent
  /\ \A r \in Requests : tmp[r] = Absent

\* the two rows are one record, but for the ledger identifier
SameButId(a, b) ==
  /\ a.hash = b.hash
  /\ a.value_date = b.value_date
  /\ a.post_date = b.post_date
  /\ a.details = b.details
  /\ a.ref_no = b.ref_no
  /\ a.debit = b.debit
  /\ a.credit = b.credit
  /\ a.balance = b.balance
  /\ a.txn_type = b.txn_type
  /\ a.account_source = b.account_source
  /\ a.imported_at = b.imported_at

\* C5: every record of the ledger is still in it after any step, the same in
\* every column but txn_id.
AppendOnly ==
  [][\A i \in 1..Len(file.rows) :
       \E j \in 1..Len(file'.rows) : SameButId(file.rows[i], file'.rows[j])]_vars

\* a merge has just added records to a ledger and given an old record a new id
MergedOntoLedger ==
  /\ response.status = "200"
  /\ response.new >= 1
  /\ response.total_in_csv > response.new
  /\ \E i \in 1..Len(lastKeys) : lastKeys[i][2] # i

\* C6: the extracted records of a document are as many as the records
\* accepted plus the records counted as duplicates.
NoSilentLoss ==
  /\ response.status = "200"
       => response.parsed = response.new + response.duplicates_skipped
  /\ \A r \in Requests :
       InCritical(r)
         => /\ resp[r].parsed = Len(transactions[r])
            /\ resp[r].parsed = resp[r].new + resp[r].duplicates_skipped
  /\ cli.pc = "docs" => cli.found = cli.new_count + cli.dup_count

\* a statement that lists one transaction twice has just been merged into an
\* empty ledger
RepeatedInsideDocument ==
  /\ response.status = "200"
  /\ response.parsed = 2
  /\ response.new = 1
  /\ response.duplicates_skipped = 1
  /\ response.total_in_csv = 1

\* C7: the ledger just written is in the order of its sort keys: by post
\* date, and by sequence number within a date.
SortTotality ==
  lastKeys # << >>
    => /\ Len(lastKeys) = Len(file.rows)
       /\ \A i \in 1..Len(lastKeys) :
            lastKeys[i][1] = parse_date_for_sort(file.rows[i].post_date)
       /\ \A i, j \in 1..Len(lastKeys) :
            i < j => \/ lastKeys[i][1] < lastKeys[j][1]
                     \/ /\ lastKeys[i][1] = lastKeys[j][1]
                        /\ lastKeys[i][2] <= lastKeys[j][2]

\* three records were written, an earlier day first although its sequence
\* number is the greater, then two of one day in the order of their numbers
SortedByDateThenSeq ==
  /\ Len(lastKeys) = 3
  /\ lastKeys[1][1] < lastKeys[2][1]
  /\ lastKeys[1][2] > lastKeys[2][2]
  /\ lastKeys[2][1] = lastKeys[3][1]
  /\ lastKeys[2][2] < lastKeys[3][2]

\* C8: the txn_id column of the ledger reads 1, 2, ..., N down the file.
DenseIds ==
  \A i \in 1..Len(file.rows) : file.rows[i].txn_id = NatText(i)

\* a ledger of three records has just been written in which a record stands
\* at another place than the number it was sorted by
Renumbered ==
  /\ Len(file.rows) = 3
  /\ Len(lastKeys) = 3
  /\ \E i \in 1..3 : lastKeys[i][2] # i

\* every transaction in flight or in the ledger
Emitted ==
  UNION { Range(transactions[r]) : r \in Requests }
    \cup Range(cli.all_new) \cup Range(file.rows)

\* C9, as claimed: every emitted record has exactly one of debit and credit.
ExactlyOneOfDebitCredit ==
  \A t \in Emitted : (t.debit # << >>) # (t.credit # << >>)

\* C9, amended: every emitted record has a debit, a credit or a balance, and
\* its txn_type is "debit" with a debit, else "credit" with a credit, else "".
SomeAmountPresent ==
  \A t \in Emitted :
    /\ t.debit # << >> \/ t.credit # << >> \/ t.balance # << >>
    /\ t.txn_type = TxnType(t.debit, t.credit)

\* the ledger holds a record with both a debit and a credit, and a record
\* with neither
BothAndNeitherInLedger ==
  /\ \E t \in Range(file.rows) : t.debit # << >> /\ t.credit # << >>
  /\ \E t \in Range(file.rows) : t.debit = << >> /\ t.credit = << >>

\* a ledger with the imported_at column blanked
SansImportedAt(f) ==
  [ f EXCEPT !.rows = [ i \in 1..Len(f.rows) |->
                        [ f.rows[i] EXCEPT !.imported_at = << >> ] ] ]

\* C10, as claimed: the ledgers that merges of one statement into an empty
\* ledger write are byte-identical.
ByteIdenticalRuns ==
  \A i, j \in 1..Len(runs) : runs[i] = runs[j]

\* C10, amended: they are identical in every column but imported_at.
IdenticalButImportedAt ==
  \A i, j \in 1..Len(runs) : SansImportedAt(runs[i]) = SansImportedAt(runs[j])

\* a statement of two transactions was merged twice into an empty ledger, at
\* different times
TwoRunsAtDifferentTimes ==
  /\ Len(runs) = 2
  /\ Len(runs[1].rows) = 2
  /\ runs[1] # runs[2]

\* the file exists and its header is short of a required column
LacksColumn(f) == f.exists /\ ~ (Range(CSV_FIELDS) \subseteq Range(f.header))

\* C11: a load of a ledger whose header lacks a required column fails with
\* the schema error, however many rows the file has (the request is answered
\* 500 and the ledger is left alone; the reader is answered 500); a load
\* without a ledger file gives no rows and no fingerprints, so that every
\* record of the statement is new.
SchemaErrorWheneverColumnMissing ==
  [][/\ \A r \in Requests :
          (pc[r] = "parsed" /\ pc'[r] # "parsed")
            => /\ LacksColumn(file)
                    => (/\ response'.status = "500 loading"
                        /\ file' = file
                        /\ csv_lock' = NoOwner)
               /\ file = Absent
                    => \/ response'.status = "200" /\ response'.parsed = 0
                       \/ /\ pc'[r] = "mkstemp"
                          /\ Len(merged'[r]) = resp'[r].new
                          /\ Hashes(merged'[r]) = Hashes(transactions[r])
     /\ (reader.pc = "open" /\ reader.kind = "transactions" /\ reader'.pc = "idle"
           /\ LacksColumn(reader.seen))
          => response'.status = "500 loading"]_vars

\* C12: when parse_pdf fails on an upload the request is answered 422 or 500
\* and is over: the ledger, the lock and the temporary files are as before,
\* and the request never comes to load or write.  When it fails on a
\* document of a command-line run the run goes on with its records, loaded
\* and accepted, as they were, and the write that ends the run puts all of
\* them in the ledger.
ExtractionFailureKeepsLedger ==
  [][/\ \A r \in Requests :
          (pc[r] = "idle" /\ cli.pc = "idle" /\ merges' = merges + 1)
            => \A doc \in Docs :
                 (doc.valid /\ Parsed[doc].err # "" /\ Upload(r, doc))
                   => (/\ response'.status \in { "422", "500 parsing" }
                       /\ pc'[r] = "idle"
                       /\ file' = file
                       /\ csv_lock' = csv_lock
                       /\ tmp' = tmp)
     /\ (cli.pc = "docs" /\ merges' = merges + 1)
          => \A doc \in Docs :
               (Parsed[doc].err # "" /\ CliDoc(doc))
                 => (/\ cli'.pc = "docs"
                     /\ cli'.all_new = cli.all_new
                     /\ cli'.existing = cli.existing
                     /\ cli'.existing_hashes = cli.existing_hashes
                     /\ file' = file)
     /\ (cli.pc = "docs" /\ response'.status = "ok")
          => FileHashes(file')
               = FileHashes(file) \cup { cli.all_new[i].hash :
                                           i \in 1..Len(cli.all_new) }]_vars

\* a command-line run has passed over a document that failed and has then
\* accepted the records of another
FailedThenMerged ==
  /\ cli.pc = "docs"
  /\ \E i, j \in 1..Len(cli.printed) :
        /\ i < j
        /\ cli.printed[i].line = "ERROR"
        /\ cli.printed[j].line = "Found"
        /\ cli.printed[j].new > 0
  /\ cli.all_new # << >>

\* where the record of fingerprint h stands in a list of rows
PosOf(rows, h) == CHOOSE i \in 1..Len(rows) : rows[i].hash = h

SameDay(a, b) ==
  parse_date_for_sort(a.post_date) = parse_date_for_sort(b.post_date)

RECURSIVE NewUpTo(_, _)
\* how many records the first j documents of a command-line run added
NewUpTo(printed, j) ==
  IF j = 0 THEN 0 ELSE NewUpTo(printed, j - 1) + printed[j].new

\* the document of the run that the k-th record of all_new came from
DocOf(printed, k) ==
  CHOOSE j \in 1..Len(printed) :
    NewUpTo(printed, j - 1) < k /\ k <= NewUpTo(printed, j)

\* in the rows written, every record of `earlier` stands before every record
\* of `later` of the same day
EarlierFirst(rows, earlier, later) ==
  \A a \in 1..Len(earlier), b \in 1..Len(later) :
    SameDay(earlier[a], later[b])
      => PosOf(rows, earlier[a].hash) < PosOf(rows, later[b].hash)

\* C13: in the ledger a write leaves, among records of the same post date,
\* the records of a document imported earlier stand before those of a
\* document imported later: the ledger's rows before the new records of a
\* request or of a command-line run, and within one command-line run the
\* records of each document before those of the documents after it.
TieBreakByImportOrder ==
  [][/\ \A r \in Requests :
          (pc[r] = "replace" /\ response'.status = "200")
            => EarlierFirst(file'.rows, file.rows,
                            SubSeq(merged[r], Len(file.rows) + 1, Len(merged[r])))
     /\ (cli.pc = "docs" /\ response'.status = "ok")
          => /\ EarlierFirst(file'.rows, cli.existing, cli.all_new)
             /\ \A a, b \in 1..Len(cli.all_new) :
                  (/\ DocOf(cli.printed, a) < DocOf(cli.printed, b)
                   /\ SameDay(cli.all_new[a], cli.all_new[b]))
                    => PosOf(file'.rows, cli.all_new[a].hash)
                         < PosOf(file'.rows, cli.all_new[b].hash)]_vars

\* the five fields the fingerprint is taken of
Five(t) == << t.post_date, t.value_date, t.debit, t.credit, t.balance >>

\* C14: two records (of one extraction, of the ledger, or one of each) have
\* the same fingerprint exactly when they agree on post_date, value_date,
\* debit, credit and balance, whatever their details, ref_no and import time.
FingerprintOfFiveFields ==
  /\ \A r \in Requests : \A i, j \in 1..Len(transactions[r]) :
        (Five(transactions[r][i]) = Five(transactions[r][j]))
          <=> (compute_hash(transactions[r][i]) = compute_hash(transactions[r][j]))
  /\ \A r \in Requests : \A i \in 1..Len(transactions[r]), k \in 1..Len(file.rows) :
        (Five(transactions[r][i]) = Five(file.rows[k]))
          <=> (compute_hash(transactions[r][i]) = file.rows[k].hash)
  /\ \A k, l \in 1..Len(file.rows) :
        (Five(file.rows[k]) = Five(file.rows[l]))
          <=> (file.rows[k].hash = file.rows[l].hash)

\* the ledger holds two records that differ in where a text sits among the
\* five fields and in nothing else that a join without separators would
\* show, and a request has extracted the statement again
SeparatorTellsApart ==
  /\ \E k, l \in 1..Len(file.rows) :
        /\ Five(file.rows[k]) # Five(file.rows[l])
        /\ Join(Five(file.rows[k]), << >>) = Join(Five(file.rows[l]), << >>)
  /\ \E r \in Requests : pc[r] = "parsed" /\ Len(transactions[r]) = 2

\* the row has at least 7 cells, no summary marker in its first cell, a
\* DD/MM/YYYY date in its first cell and an amount in one of its amount cells
Qualifies(row) ==
  /\ Len(row) >= 7
  /\ ~ Contains(row[1], StatementSummary)
  /\ ~ Contains(row[1], BroughtForward)
  /\ IsDMY(Strip(row[1]))
  /\ \/ parse_amount(row[5]) # << >>
     \/ parse_amount(row[6]) # << >>
     \/ parse_amount(row[7]) # << >>

\* the five fields of the record that a row gives
RowFive(row) ==
  << Strip(row[1]), Strip(row[2]), parse_amount(row[5]), parse_amount(row[6]),
     parse_amount(row[7]) >>

\* the qualifying rows of the statement, in document order
QualifyingRows == SelectSeq(ReadingOrder(detDoc.pages), Qualifies)

\* what a request has extracted is one record for each qualifying row, in
\* document order, and nothing else
EmitsExactlyQualifying ==
  \A r \in Requests :
    pc[r] # "idle"
      => /\ Len(transactions[r]) = Len(QualifyingRows)
         /\ \A i \in 1..Len(QualifyingRows) :
              Five(transactions[r][i]) = RowFive(QualifyingRows[i])

\* C15 as claimed: a record is emitted for a row exactly when the row
\* qualifies, and the ledger written from no ledger has one record for each
\* qualifying row, with ids 1..n, in document order.
LedgerInDocumentOrder ==
  /\ EmitsExactlyQualifying
  /\ file # Absent
       => /\ Len(file.rows) = Len(QualifyingRows)
          /\ \A i \in 1..Len(file.rows) :
               /\ file.rows[i].txn_id = NatText(i)
               /\ Five(file.rows[i]) = RowFive(QualifyingRows[i])

\* where the record of a qualifying row stands in the ledger
RowPos(i) ==
  CHOOSE k \in 1..Len(file.rows) : Five(file.rows[k]) = RowFive(QualifyingRows[i])

\* C15 as amended: a record is emitted for a row exactly when the row
\* qualifies; when the qualifying rows differ from one another in their five
\* fields, the ledger written from no ledger has one record for each of
\* them, with ids 1..n, ordered by post date and, within a post date, in
\* document order.
LedgerInDateThenDocumentOrder ==
  /\ EmitsExactlyQualifying
  /\ (/\ file # Absent
      /\ \A i, j \in 1..Len(QualifyingRows) :
            i # j => RowFive(QualifyingRows[i]) # RowFive(QualifyingRows[j]))
       => /\ Len(file.rows) = Len(QualifyingRows)
          /\ \A k \in 1..Len(file.rows) : file.rows[k].txn_id = NatText(k)
          /\ \A i \in 1..Len(QualifyingRows) :
               \E k \in 1..Len(file.rows) :
                 Five(file.rows[k]) = RowFive(QualifyingRows[i])
          /\ \A i, j \in 1..Len(QualifyingRows) :
               i < j
                 => LET di == parse_date_for_sort(Strip(QualifyingRows[i][1]))
                        dj == parse_date_for_sort(Strip(QualifyingRows[j][1]))
                    IN  IF di <= dj THEN RowPos(i) < RowPos(j)
                        ELSE RowPos(j) < RowPos(i)

\* the ledger written from a statement whose second qualifying row is of an
\* earlier day than its first: the second row's record has id 1
OutOfDocumentOrder ==
  /\ file # Absent
  /\ Len(QualifyingRows) = 2
  /\ Len(file.rows) = 2
  /\ Five(file.rows[1]) = RowFive(QualifyingRows[2])
  /\ file.rows[1].txn_id = << "1" >>

\* the places <<page, table, row>> of the qualifying rows of a statement
QualifyingPlaces(doc) ==
  { x \in UNION { UNION { { << p, t, k >> : k \in 1..Len(doc.pages[p][t]) } :
                            t \in 1..Len(doc.pages[p]) } :
                   p \in 1..Len(doc.pages) } :
      Qualifies(doc.pages[x[1]][x[2]][x[3]]) }

\* page, then table within the page, then row within the table
PlaceBefore(x, y) ==
  \/ x[1] < y[1]
  \/ x[1] = y[1] /\ x[2] < y[2]
  \/ x[1] = y[1] /\ x[2] = y[2] /\ x[3] < y[3]

\* for every statement, how many qualifying rows stand before each place
\* of a qualifying row
Rank ==
  [ doc \in Docs |->
      LET places == QualifyingPlaces(doc)
      IN  [ x \in places |-> Cardinality({ y \in places : PlaceBefore(y, x) }) ]
            @@ << >> ] @@ << >>

\* C16: the records one call of parse_pdf returns are numbered 0, 1, ...,
\* k-1 in the order page, table, row of the rows they come from; rows that
\* give no record take no number; every call, of a request or of a
\* command-line run, starts again at 0 (the command line adds the length of
\* the loaded ledger to the numbers of the records it accepts).
SequenceFromZero ==
  [][/\ \A r \in Requests :
          (pc[r] = "idle" /\ pc'[r] = "parsed")
            => /\ Len(transactions'[r]) = Cardinality(DOMAIN Rank[detDoc])
               /\ \A x \in DOMAIN Rank[detDoc] :
                    LET t == transactions'[r][Rank[detDoc][x] + 1]
                    IN  /\ t.parse_seq = Rank[detDoc][x]
                        /\ Five(t) = RowFive(detDoc.pages[x[1]][x[2]][x[3]])
     /\ (cli.pc = "docs" /\ merges' = merges + 1 /\ Parsed[detDoc].err = "")
          => \A a \in Len(cli.all_new) + 1..Len(cli'.all_new) :
               \E x \in DOMAIN Rank[detDoc] :
                 /\ cli'.all_new[a].parse_seq
                      = Rank[detDoc][x] + Len(cli.existing)
                 /\ Five(cli'.all_new[a])
                      = RowFive(detDoc.pages[x[1]][x[2]][x[3]])]_vars

\* a request has extracted a statement of several tables in which rows that
\* give no record stand before and between the two rows that do
NumberedAcrossTables ==
  \E r \in Requests :
    /\ pc[r] = "parsed"
    /\ Len(transactions[r]) = 2
    /\ Five(transactions[r][1]) = RowFive(RowDebit)
    /\ Five(transactions[r][2]) = RowFive(RowBoth)
    /\ transactions[r][1].parse_seq = 0
    /\ transactions[r][2].parse_seq = 1

\* C17: a reader without the lock holds, from its open() on, a file that was
\* the complete ledger at that moment (the ledger as the last finished write
\* or the start of the server left it), and its answer is made of that file
\* alone, whatever a merge does to the ledger in the meantime.
ReaderSeesWholeLedger ==
  [][/\ (reader.pc = "exists" /\ reader'.pc = "open")
          => reader'.seen = whole
     /\ (reader.pc = "open" /\ reader'.pc = "open")
          => reader'.seen = reader.seen
     /\ (reader.pc = "open" /\ reader'.pc = "idle")
          => \/ response'.status = "500 loading"
             \/ /\ response'.status = "health"
                /\ response'.transaction_count = Len(reader.seen.rows)
             \/ /\ response'.status = "transactions"
                /\ Len(response'.content) = Len(reader.seen.rows)
                /\ \A i \in 1..Len(reader.seen.rows) :
                     response'.content[i].hash = reader.seen.rows[i].hash]_vars

\* a reader holds the ledger of before the merge while a request has
\* replaced it with a longer one
ReadAcrossReplace ==
  /\ reader.pc = "open"
  /\ reader.kind = "transactions"
  /\ reader.seen.exists
  /\ file # reader.seen
  /\ Len(file.rows) > Len(reader.seen.rows)

\* C18: a merge keeps the records of the ledger it loaded in the order they
\* had: whenever the ledger is replaced, any two of its records stand in the
\* new ledger in the same order as in the old one.
ExistingOrderKept ==
  [][file' # file
       => \A i, j \in 1..Len(file.rows) :
            i < j
              => \E a, b \in 1..Len(file'.rows) :
                   /\ a < b
                   /\ file'.rows[a].hash = file.rows[i].hash
                   /\ file'.rows[b].hash = file.rows[j].hash]_vars

\* a later merge has put its record in front of two records of one day that
\* an earlier merge wrote
InsertedBeforeSameDayPair ==
  \E i, j, k \in 1..Len(file.rows) :
    /\ i < j /\ j < k
    /\ file.rows[i].imported_at = Timestamp(1)
    /\ file.rows[j].imported_at = Timestamp(0)
    /\ file.rows[k].imported_at = Timestamp(0)
    /\ file.rows[j].post_date = file.rows[k].post_date

\* C19: the lock does not stay taken, and a request that has extracted its
\* statement is answered, whatever became of the requests before it: a load
\* or a write that raises inside `with _csv_lock:` gives the lock back.
LockAlwaysReleased ==
  /\ (csv_lock # NoOwner) ~> (csv_lock = NoOwner)
  /\ \A r \in Requests : (pc[r] = "parsed") ~> (pc[r] = "idle")

\* a write has just failed inside the critical section while the other
\* request waits to enter it
FailedWhileOtherWaits ==
  /\ response.status = "500"
  /\ csv_lock = NoOwner
  /\ \E r \in Requests : pc[r] = "parsed"

====
